---- MODULE Spec2Model ----
(***************************************************************************)
(* A model of open-dmx (src/src/dmx_serial.rs, src/src/lib.rs,             *)
(* src/src/thread.rs): the DMXSerial facade, the worker thread spawned by  *)
(* DMXSerial::open, the two mpsc channels between them and the frame       *)
(* protocol of DMXSerialAgent::send_dmx_packet.                            *)
(*                                                                         *)
(* Every DMXSerial::open creates one "instance": a channel store, the two  *)
(* mpsc channels and a worker.  Instances are numbered 1, 2, ... in the    *)
(* order they are opened; a per-instance field f of instance g is f[g].    *)
(* The caller is one thread (every mutating method takes &mut self), so    *)
(* it has one program counter, cpc.  Each worker has its own, wpc[g].      *)
(***************************************************************************)
EXTENDS Integers, Sequences, FiniteSets, TLC

\* ---------------------------------------------------------------- constants

\* lib.rs: pub const DMX_CHANNELS: usize = 512
DMX_CHANNELS == 512

\* dmx_serial.rs:93  time::Duration::from_micros(22_700), in microseconds
DEFAULT_PACKET_TIME == 22700

\* a completion channel that buffers one message: mpsc::sync_channel(1)
SYNC_CHANNEL_BOUND_ONE == 0 + 1

\* dmx_serial.rs:84  mpsc::sync_channel(0): capacity of the completion channel
SYNC_CHANNEL_BOUND == 0

\* dmx_serial.rs:18  TIME_BREAK_TO_DATA = Duration::new(0, 136_000), in microseconds
TIME_BREAK_TO_DATA == 136

\* dmx_serial.rs:429  serialport::new(port, 200000): the baud rate the port is opened at
OPEN_BAUD_RATE == 200000

\* ------------------------------------------------------------------- bounds

\* number of instances ever opened (the first open plus MaxGen - 1 reopens)
MaxGen == 2

\* cap on the messages queued in the unbounded trigger channel
MaxTrig == 2

\* the clocks of FrameSpec stop counting at MaxTicks * TIME_BREAK_TO_DATA
MaxTicks == 5

\* ------------------------------------------------------------------- inputs

\* A byte array is written [len, fill, over]: len elements, indexed from 0 as in
\* Rust, element i being over[i] where over is defined and fill elsewhere.  over
\* never maps an index to fill, so two arrays are equal exactly when they are
\* written the same.

\* [v; n]
Repeat(v, n) == [len |-> n, fill |-> v, over |-> <<>>]

\* a[i]
At(a, i) == IF i \in DOMAIN a.over THEN a.over[i] ELSE a.fill

\* a[i] = v
Put(a, i, v) ==
    [a EXCEPT !.over =
        IF v = a.fill
          THEN [j \in DOMAIN @ \ {i} |-> @[j]]
          ELSE [j \in DOMAIN @ \cup {i} |-> IF j = i THEN v ELSE @[j]]]

\* a [u8; DMX_CHANNELS] with every element v
Filled(v) == Repeat(v, DMX_CHANNELS)

\* the worker's local `channels` when it is not in scope
NoBuf == Repeat(0, 0)

\* arrays the caller passes to set_channels
Arrays == {Filled(255)}

\* channel numbers the caller passes to set_channel (valid and invalid)
ChannelArgs == {0, 1, DMX_CHANNELS + 1}

\* values the caller passes to set_channel
ValueArgs == {255}

\* durations the caller passes to set_packet_time, in microseconds
PacketTimes == {0}

\* byte counts a transport may accept of one write when it does not take it whole:
\* none of it, or its first 100 bytes
ShortWrites == {0, 100}

\* the path the first instance is opened on
Port == "COM3"

\* channel numbers the caller passes to set_channel in StoreSpec: the ends of the
\* range, a neighbour inside it and the numbers next to it outside
StoreChannelArgs == {0, 1, 2, DMX_CHANNELS, DMX_CHANNELS + 1, DMX_CHANNELS + 2}

\* values the caller passes to set_channel in StoreSpec
StoreValueArgs == {0, 128, 255}

\* durations the caller has passed to set_packet_time in FrameSpec, in microseconds
PacingTimes == {k * TIME_BREAK_TO_DATA : k \in 0 .. 3}

\* the time a transport call takes, and the time a sleep oversleeps
Durations == {0, TIME_BREAK_TO_DATA}

\* where the clocks stop counting; no smaller than any packet time of PacingTimes
MaxClock == MaxTicks * TIME_BREAK_TO_DATA

VARIABLES
    name,                     \* DMXSerial.name of each instance
    channels,                 \* DMXSerial.channels of each instance (shared with its worker)
    is_sync,                  \* DMXSerial.is_sync of each instance (shared with its worker)
    min_time_break_to_break,  \* DMXSerial.min_time_break_to_break of each instance
    triggers,                 \* messages queued in the channel agent_tx -> handler_rec
    done_q,                   \* messages buffered in the channel handler -> agent_rx
    facade_alive,             \* the facade's endpoints (agent.tx, agent.rx) are not dropped
    wpc,                      \* each worker's position in the thread closure
    w_channels,               \* the worker's local `channels` (NoBuf when out of scope)
    cur,                      \* the instance `self` is
    cpc,                      \* the caller's position
    ret,                      \* <<method, result>> of the caller's last returned call
    saved,                    \* reopen's local `channels` (NoBuf outside reopen)
    ever_sync,                \* history: set_sync was called on the instance
    sync_quiet,               \* history: instance 1 was made by open_sync and neither
                              \* update nor update_async has been called since
    apc,                      \* worker 1's position inside send_dmx_packet
    agent_port,               \* DMXSerialAgent.port of worker 1: the line settings
    wire,                     \* what worker 1 has done on the line in its current frame
    elapsed,                  \* start.elapsed() of worker 1's send_dmx_packet
    since_break,              \* time since worker 1 last began to write a break
    lock,                     \* the RwLock of instance 1's channels: who holds it
    c_channels,               \* the caller's local array inside set_channels,
                              \* reset_channels and get_channels (NoBuf outside)
    took,                     \* each worker: recv() returned a trigger in this iteration
    untriggered               \* each instance: send_dmx_packet calls of iterations that
                              \* took no trigger, since set_sync last returned

vars == <<name, channels, is_sync, min_time_break_to_break, triggers, done_q,
          facade_alive, wpc, w_channels, cur, cpc, ret, saved, ever_sync, sync_quiet,
          apc, agent_port, wire, elapsed, since_break, lock, c_channels, took,
          untriggered>>

store == <<name, channels, is_sync, min_time_break_to_break, ever_sync>>
chans == <<triggers, done_q, facade_alive>>
worker == <<wpc, w_channels>>

\* The state of the call-by-call view of DMXSerialAgent::send_dmx_packet.  The steps
\* of Spec take send_break and send_data whole and leave it as it is; FrameSpec
\* takes them one transport call at a time.
frame == <<apc, agent_port, wire, elapsed, since_break>>

\* The state of the step-by-step view of the accesses to the channels' RwLock.  The
\* steps of Spec take each access whole (lock, copy, unlock) and leave it as it is;
\* LockSpec takes the lock and the copy apart.
locks == <<lock, c_channels>>

aux == <<frame, locks>>

\* The record of the worker's iterations: whether the one in progress took a
\* trigger, and how many frames were started without one since set_sync returned.
\* It is kept by the steps of Spec; the step-by-step views leave it as it is.
cycle == <<took, untriggered>>

\* the count of untriggered stops at MaxUntriggered (read: many)
MaxUntriggered == 2

Gens == 1 .. Len(wpc)

\* ------------------------------------------------------------ pure functions

\* a check_valid_channel that names the two errors the other way round
check_valid_channel_swapped(channel) ==
    IF channel > DMX_CHANNELS THEN "TooLow"
    ELSE IF channel < 1 THEN "TooHigh"
    ELSE "Ok"

\* lib.rs check_valid_channel
check_valid_channel(channel) ==
    IF channel > DMX_CHANNELS THEN "TooHigh"
    ELSE IF channel < 1 THEN "TooLow"
    ELSE "Ok"

\* DMXSerial::get_channel
get_channel(channel) ==
    IF check_valid_channel(channel) # "Ok" THEN check_valid_channel(channel)
    ELSE At(channels[cur], channel - 1)

\* DMXSerial::get_channels
get_channels == channels[cur]

\* DMXSerial::is_sync()
IsSync == is_sync[cur]

\* DMXSerial::is_async()
IsAsync == ~IsSync

\* DMXSerial::get_packet_time
get_packet_time == min_time_break_to_break[cur]

\* DMXSerial::name()
GetName == name[cur]

\* send_dmx_packet: prefixed_data = [0; 513]; prefixed_data[1..].copy_from_slice(&channels)
prefixed_data(chs) ==
    LET shifted == [len  |-> DMX_CHANNELS + 1,
                    fill |-> chs.fill,
                    over |-> [j \in {i + 1 : i \in DOMAIN chs.over} |-> chs.over[j - 1]]]
    IN  Put(shifted, 0, 0)

\* DMXSerialAgent::open: the port as serialport::new(port, 200000).open() returns it;
\* the builder's other settings are the library's defaults
OpenedPort ==
    [baud_rate |-> OPEN_BAUD_RATE, data_bits |-> "Default", stop_bits |-> "Default",
     parity |-> "Default", flow_control |-> "Default"]

\* DMXSerialAgent::send_break, its calls on self.port in order:
\* <<setting, value>> for self.port.set_<setting>(value), <<"write", buffer>>
send_break_calls ==
    << <<"baud_rate", 57600>>, <<"data_bits", "Seven">>, <<"stop_bits", "One">>,
       <<"parity", "None">>, <<"flow_control", "None">>, <<"write", Repeat(0, 1)>> >>

\* DMXSerialAgent::send_data(data), its calls on self.port in order
send_data_calls(data) ==
    << <<"baud_rate", 250000>>, <<"data_bits", "Eight">>, <<"stop_bits", "Two">>,
       <<"parity", "None">>, <<"flow_control", "None">>, <<"write", data>> >>

\* the port after the call: a set_<setting> changes that setting, a write none
PortAfter(p, call) == IF call[1] = "write" THEN p ELSE [p EXCEPT ![call[1]] = call[2]]

\* &a[..n]
Prefix(a, n) ==
    [len |-> n, fill |-> a.fill, over |-> [j \in {i \in DOMAIN a.over : i < n} |-> a.over[j]]]

\* The byte counts self.port.write(buf) can return in Ok: Write::write takes the
\* whole buffer or the beginning of it that the transport accepts in one go, which
\* may be nothing; the write of the break and the write of the data are the same
\* call.  For the other calls there is no count (written 0).
AcceptedBy(call) ==
    IF call[1] = "write"
      THEN {call[2].len} \cup {k \in ShortWrites : k < call[2].len}
      ELSE {0}

\* what is on the line after the call: a write that returned Ok(n) has put the
\* first n bytes of its buffer there, at the settings of the port.  The code drops
\* n and writes no rest.
WireAfter(w, p, call, n) ==
    IF call[1] = "write"
      THEN Append(w, [op |-> "write", line |-> p, data |-> Prefix(call[2], n), us |-> 0])
      ELSE w

\* what is on the line after thread::sleep(us): a gap of at least us
WireAfterSleep(w, p, us) ==
    Append(w, [op |-> "sleep", line |-> p, data |-> NoBuf, us |-> us])

\* a clock that showed t, d later
After(t, d) == IF t + d > MaxClock THEN MaxClock ELSE t + d

\* Duration::saturating_sub
saturating_sub(a, b) == IF a > b THEN a - b ELSE 0

\* The worker's closure returns in steps: it leaves the loop ("exit"), drops
\* handler_rec and its views of the channels and of the mode and goes into the
\* drop of the agent, which closes the port ("closing"), and last drops handler
\* ("dead").

\* the worker has left its loop
LoopLeft(g) == wpc[g] \in {"exit", "closing", "dead"}

\* the worker has dropped handler_rec, the receiver of the triggers, and its
\* views channel_view and is_sync_view
ReceiverDropped(g) == wpc[g] \in {"closing", "dead"}

\* the worker's thread has finished: the agent and handler, the sender of the
\* completions, are dropped too
WorkerGone(g) == wpc[g] = "dead"

\* The name of an instance is a String of the facade and is freed with it.  Its
\* channels, mode and packet time live in Arcs held by the facade and by the
\* worker (channel_view, is_sync_view, the agent's min_b2b): each is freed when
\* the facade is dropped and the worker has dropped its view.  Freed, they are
\* written as these values (and the channels as NoBuf).
FreedName == ""
FreedSync == FALSE
FreedTime == 0

\* --------------------------------------------------------------------- Init

\* worker 1 has not called send_dmx_packet yet: the port is as opened, nothing is on
\* the line and no break has been written (since_break is at its stop); nobody
\* holds the lock of the channels
AuxInit ==
    /\ apc = 0
    /\ agent_port = OpenedPort
    /\ wire = <<>>
    /\ elapsed = 0
    /\ since_break = MaxClock
    /\ lock = [readers |-> {}, writers |-> {}]
    /\ c_channels = NoBuf

\* The state when DMXSerial::open has returned: to the caller (cpc = "idle"), or to
\* open_sync, which has yet to call set_sync (cpc = "open_sync").
Init ==
    /\ name = <<Port>>
    /\ channels = <<Filled(0)>>
    /\ is_sync = <<FALSE>>
    /\ min_time_break_to_break = <<DEFAULT_PACKET_TIME>>
    /\ triggers = <<0>>
    /\ done_q = <<0>>
    /\ facade_alive = <<TRUE>>
    /\ wpc = <<"loop">>
    /\ w_channels = <<NoBuf>>
    /\ cur = 1
    /\ cpc \in {"idle", "open_sync"}
    /\ ret = <<"open", "Ok">>
    /\ saved = NoBuf
    /\ ever_sync = <<FALSE>>
    /\ sync_quiet = (cpc = "open_sync")
    /\ took = <<FALSE>>
    /\ untriggered = <<0>>
    /\ AuxInit

\* --------------------------------------------------------------- scheduling

\* Every thread takes its steps whenever it can: the caller, the worker of `self`
\* and the workers of instances whose facade is dropped run side by side.

\* the caller's thread is at `pc` and may take its step
CallerAt(pc) == cpc = pc

\* the worker of instance g is at `pc` and may take its step
WorkerAt(g, pc) == g \in Gens /\ wpc[g] = pc

\* ------------------------------------------------------- the caller's thread

Idle == CallerAt("idle")

\* DMXSerial::open_sync, after DMXSerial::open(port)? returned: dmx.set_sync(); Ok(dmx)
open_sync ==
    /\ CallerAt("open_sync")
    /\ is_sync' = [is_sync EXCEPT ![cur] = TRUE]
    /\ ever_sync' = [ever_sync EXCEPT ![cur] = TRUE]
    /\ cpc' = "idle"
    /\ ret' = <<"open_sync", "Ok">>
    /\ UNCHANGED <<name, channels, min_time_break_to_break, chans, worker, cur, saved,
                   sync_quiet>>
    /\ UNCHANGED aux
    /\ untriggered' = [untriggered EXCEPT ![cur] = 0]
    /\ UNCHANGED took

\* a set_channel that stores at channels[channel]
set_channel_zero_based(channel, value) ==
    /\ Idle
    /\ IF check_valid_channel(channel) # "Ok"
         THEN /\ ret' = <<"set_channel", check_valid_channel(channel)>>
              /\ UNCHANGED channels
         ELSE /\ channels' = [channels EXCEPT ![cur] = Put(@, channel, value)]
              /\ ret' = <<"set_channel", "Ok">>
    /\ UNCHANGED <<name, is_sync, min_time_break_to_break, ever_sync, chans, worker,
                   cur, cpc, saved, sync_quiet>>
    /\ UNCHANGED aux
    /\ UNCHANGED cycle

\* DMXSerial::set_channel
set_channel(channel, value) ==
    /\ Idle
    /\ IF check_valid_channel(channel) # "Ok"
         THEN /\ ret' = <<"set_channel", check_valid_channel(channel)>>
              /\ UNCHANGED channels
         ELSE /\ channels' = [channels EXCEPT ![cur] = Put(@, channel - 1, value)]
              /\ ret' = <<"set_channel", "Ok">>
    /\ UNCHANGED <<name, is_sync, min_time_break_to_break, ever_sync, chans, worker,
                   cur, cpc, saved, sync_quiet>>
    /\ UNCHANGED aux
    /\ UNCHANGED cycle

\* DMXSerial::set_channels
set_channels(values) ==
    /\ Idle
    /\ channels' = [channels EXCEPT ![cur] = values]
    /\ ret' = <<"set_channels", "Ok">>
    /\ UNCHANGED <<name, is_sync, min_time_break_to_break, ever_sync, chans, worker,
                   cur, cpc, saved, sync_quiet>>
    /\ UNCHANGED aux
    /\ UNCHANGED cycle

\* DMXSerial::reset_channels
reset_channels ==
    /\ Idle
    /\ channels' = [channels EXCEPT ![cur] = Filled(0)]
    /\ ret' = <<"reset_channels", "Ok">>
    /\ UNCHANGED <<name, is_sync, min_time_break_to_break, ever_sync, chans, worker,
                   cur, cpc, saved, sync_quiet>>
    /\ UNCHANGED aux
    /\ UNCHANGED cycle

\* a set_sync that empties the trigger queue
set_sync_flush ==
    /\ Idle
    /\ is_sync' = [is_sync EXCEPT ![cur] = TRUE]
    /\ ever_sync' = [ever_sync EXCEPT ![cur] = TRUE]
    /\ triggers' = [triggers EXCEPT ![cur] = 0]
    /\ ret' = <<"set_sync", "Ok">>
    /\ UNCHANGED <<name, channels, min_time_break_to_break, done_q, facade_alive,
                   worker, cur, cpc, saved, sync_quiet>>
    /\ UNCHANGED aux
    /\ untriggered' = [untriggered EXCEPT ![cur] = 0]
    /\ UNCHANGED took

\* DMXSerial::set_sync
set_sync ==
    /\ Idle
    /\ is_sync' = [is_sync EXCEPT ![cur] = TRUE]
    /\ ever_sync' = [ever_sync EXCEPT ![cur] = TRUE]
    /\ ret' = <<"set_sync", "Ok">>
    /\ UNCHANGED <<name, channels, min_time_break_to_break, chans, worker, cur, cpc,
                   saved, sync_quiet>>
    /\ UNCHANGED aux
    /\ untriggered' = [untriggered EXCEPT ![cur] = 0]
    /\ UNCHANGED took

\* a set_async that flips the flag
set_async_toggle ==
    /\ Idle
    /\ is_sync' = [is_sync EXCEPT ![cur] = ~@]
    /\ ret' = <<"set_async", "Ok">>
    /\ UNCHANGED <<name, channels, min_time_break_to_break, ever_sync, chans, worker,
                   cur, cpc, saved, sync_quiet>>
    /\ UNCHANGED aux
    /\ untriggered' = [untriggered EXCEPT ![cur] = 0]
    /\ UNCHANGED took

\* DMXSerial::set_async
set_async ==
    /\ Idle
    /\ is_sync' = [is_sync EXCEPT ![cur] = FALSE]
    /\ ret' = <<"set_async", "Ok">>
    /\ UNCHANGED <<name, channels, min_time_break_to_break, ever_sync, chans, worker,
                   cur, cpc, saved, sync_quiet>>
    /\ UNCHANGED aux
    /\ untriggered' = [untriggered EXCEPT ![cur] = 0]
    /\ UNCHANGED took

\* DMXSerial::set_packet_time
set_packet_time(time) ==
    /\ Idle
    /\ min_time_break_to_break' = [min_time_break_to_break EXCEPT ![cur] = time]
    /\ ret' = <<"set_packet_time", "Ok">>
    /\ UNCHANGED <<name, channels, is_sync, ever_sync, chans, worker, cur, cpc, saved,
                   sync_quiet>>
    /\ UNCHANGED aux
    /\ UNCHANGED cycle

\* mpsc::Sender::send on the unbounded channel agent_tx -> handler_rec of instance g:
\* Err once the worker has dropped handler_rec, else the message is queued
\* (the queue is capped at MaxTrig by the callers' guards)
TxSendOk(g) == ~ReceiverDropped(g)

\* update_async over a rendezvous channel: the send waits while a trigger is pending
update_async_rendezvous ==
    /\ Idle
    /\ sync_quiet' = FALSE
    /\ IF TxSendOk(cur)
         THEN /\ triggers[cur] = 0
              /\ triggers' = [triggers EXCEPT ![cur] = @ + 1]
              /\ ret' = <<"update_async", "Ok">>
         ELSE /\ ret' = <<"update_async", "Disconnected">>
              /\ UNCHANGED triggers
    /\ UNCHANGED <<store, done_q, facade_alive, worker, cur, cpc, saved>>
    /\ UNCHANGED aux
    /\ UNCHANGED cycle

\* DMXSerial::update_async
update_async ==
    /\ Idle
    /\ sync_quiet' = FALSE
    /\ IF TxSendOk(cur)
         THEN /\ triggers[cur] < MaxTrig
              /\ triggers' = [triggers EXCEPT ![cur] = @ + 1]
              /\ ret' = <<"update_async", "Ok">>
         ELSE /\ ret' = <<"update_async", "Disconnected">>
              /\ UNCHANGED triggers
    /\ UNCHANGED <<store, done_q, facade_alive, worker, cur, cpc, saved>>
    /\ UNCHANGED aux
    /\ UNCHANGED cycle

\* DMXSerial::update, first statement: self.update_async()?
update ==
    /\ Idle
    /\ sync_quiet' = FALSE
    /\ IF TxSendOk(cur)
         THEN /\ triggers[cur] < MaxTrig
              /\ triggers' = [triggers EXCEPT ![cur] = @ + 1]
              /\ cpc' = "update_sent"
              /\ UNCHANGED ret
         ELSE /\ ret' = <<"update", "Disconnected">>
              /\ UNCHANGED <<triggers, cpc>>
    /\ UNCHANGED <<store, done_q, facade_alive, worker, cur, saved>>
    /\ UNCHANGED aux
    /\ UNCHANGED cycle

\* DMXSerial::wait_for_update, entering self.agent.rx.recv(): a buffered message is
\* taken at once; with none and the sender dropped recv fails; else the caller parks
wait_for_update ==
    /\ CallerAt("update_sent")
    /\ IF done_q[cur] > 0
         THEN /\ done_q' = [done_q EXCEPT ![cur] = @ - 1]
              /\ cpc' = "idle"
              /\ ret' = <<"update", "Ok">>
         ELSE IF WorkerGone(cur)
         THEN /\ cpc' = "idle"
              /\ ret' = <<"update", "Disconnected">>
              /\ UNCHANGED done_q
         ELSE /\ cpc' = "update_wait"
              /\ UNCHANGED <<done_q, ret>>
    /\ UNCHANGED <<store, triggers, facade_alive, worker, cur, saved, sync_quiet>>
    /\ UNCHANGED aux
    /\ UNCHANGED cycle

\* DMXSerial::wait_for_update, parked in recv() when the worker's try_send has
\* handed it a message: recv returns it, and update returns Ok
wait_for_update_return ==
    /\ CallerAt("update_wait")
    /\ done_q[cur] > 0
    /\ done_q' = [done_q EXCEPT ![cur] = @ - 1]
    /\ cpc' = "idle"
    /\ ret' = <<"update", "Ok">>
    /\ UNCHANGED <<store, triggers, facade_alive, worker, cur, saved, sync_quiet>>
    /\ UNCHANGED aux
    /\ UNCHANGED cycle

\* DMXSerial::wait_for_update, parked in recv() with no message handed over when
\* the worker drops `handler`
wait_for_update_disconnected ==
    /\ CallerAt("update_wait")
    /\ done_q[cur] = 0
    /\ WorkerGone(cur)
    /\ cpc' = "idle"
    /\ ret' = <<"update", "Disconnected">>
    /\ UNCHANGED <<store, chans, worker, cur, saved, sync_quiet>>
    /\ UNCHANGED aux
    /\ UNCHANGED cycle

\* DMXSerial::check_agent, its result: self.agent.rx.try_recv() yields a buffered
\* message if there is one, else Disconnected if the worker dropped `handler`, else
\* Empty; only TryRecvError::Disconnected is an error
check_agent_result ==
    IF done_q[cur] = 0 /\ WorkerGone(cur) THEN "Disconnected" ELSE "Ok"

\* DMXSerial::check_agent: the try_recv takes the buffered message it yields
check_agent ==
    /\ Idle
    /\ done_q' = [done_q EXCEPT ![cur] = IF @ > 0 THEN @ - 1 ELSE @]
    /\ ret' = <<"check_agent", check_agent_result>>
    /\ UNCHANGED <<store, triggers, facade_alive, worker, cur, cpc, saved, sync_quiet>>
    /\ UNCHANGED aux
    /\ UNCHANGED cycle

\* an open that hands the mode and the packet time of `self` on to the new instance
open_inherit(port) ==
    /\ name' = Append(name, port)
    /\ channels' = Append(channels, Filled(0))
    /\ is_sync' = Append(is_sync, is_sync[cur])
    /\ min_time_break_to_break' =
         Append(min_time_break_to_break, min_time_break_to_break[cur])
    /\ triggers' = Append(triggers, 0)
    /\ done_q' = Append(done_q, 0)
    /\ facade_alive' = Append(facade_alive, TRUE)
    /\ wpc' = Append(wpc, "loop")
    /\ w_channels' = Append(w_channels, NoBuf)
    /\ ever_sync' = Append(ever_sync, is_sync[cur])
    /\ took' = Append(took, FALSE)
    /\ untriggered' = Append(untriggered, 0)

\* DMXSerial::open(port), when DMXSerialAgent::open succeeded: a new instance with a
\* zeroed buffer, async mode, the default packet time, fresh channels and a spawned
\* worker at the head of its loop.  Each variable becomes itself with one more entry.
open(port) ==
    /\ name' = Append(name, port)
    /\ channels' = Append(channels, Filled(0))
    /\ is_sync' = Append(is_sync, FALSE)
    /\ min_time_break_to_break' = Append(min_time_break_to_break, DEFAULT_PACKET_TIME)
    /\ triggers' = Append(triggers, 0)
    /\ done_q' = Append(done_q, 0)
    /\ facade_alive' = Append(facade_alive, TRUE)
    /\ wpc' = Append(wpc, "loop")
    /\ w_channels' = Append(w_channels, NoBuf)
    /\ ever_sync' = Append(ever_sync, FALSE)
    /\ took' = Append(took, FALSE)
    /\ untriggered' = Append(untriggered, 0)

\* a failing open that has already put the fresh zeroed buffer in place of self's
open_failed_zeroed ==
    /\ channels' = [channels EXCEPT ![cur] = Filled(0)]
    /\ UNCHANGED <<name, is_sync, min_time_break_to_break, ever_sync, chans, worker,
                   cycle>>

\* DMXSerial::open(port) when DMXSerialAgent::open fails: the `?` returns before
\* thread::spawn, the half-built DMXSerial is dropped and nothing else is touched
open_failed ==
    UNCHANGED <<store, chans, worker, cycle>>

\* DMXSerial::reopen, first two statements:
\*   let channels = self.get_channels(); let new_dmx = DMXSerial::open(&self.name)?;
reopen_open(ok) ==
    /\ Idle
    /\ IF ok
         THEN /\ Len(wpc) < MaxGen
              /\ saved' = get_channels
              /\ open(name[cur])
              /\ cpc' = "reopen_assign"
              /\ UNCHANGED ret
         ELSE /\ open_failed
              /\ ret' = <<"reopen", "OpenError">>
              /\ UNCHANGED <<saved, cpc>>
    /\ UNCHANGED <<cur, sync_quiet>>
    /\ UNCHANGED aux

\* the facade of instance g is dropped: its endpoints agent.tx and agent.rx close,
\* the completions buffered in agent.rx go with it, and its name is freed; the
\* channels, the mode and the packet time are freed if the worker has dropped its
\* view of them already
DropFacade(g) ==
    /\ facade_alive' = [facade_alive EXCEPT ![g] = FALSE]
    /\ done_q' = [done_q EXCEPT ![g] = 0]
    /\ name' = [name EXCEPT ![g] = FreedName]
    /\ channels' = [channels EXCEPT ![g] = IF ReceiverDropped(g) THEN NoBuf ELSE @]
    /\ is_sync' = [is_sync EXCEPT ![g] = IF ReceiverDropped(g) THEN FreedSync ELSE @]
    /\ ever_sync' = [ever_sync EXCEPT ![g] = IF ReceiverDropped(g) THEN FreedSync ELSE @]
    /\ min_time_break_to_break' =
         [min_time_break_to_break EXCEPT ![g] = IF WorkerGone(g) THEN FreedTime ELSE @]

\* DMXSerial::reopen, third statement: *self = new_dmx.  The old facade is dropped
\* and `self` is the new instance, its channels still as open made them
reopen_assign ==
    /\ CallerAt("reopen_assign")
    /\ DropFacade(cur)
    /\ cur' = Len(wpc)
    /\ cpc' = "reopen_restore"
    /\ UNCHANGED <<triggers, worker, ret, saved, sync_quiet>>
    /\ UNCHANGED aux
    /\ UNCHANGED cycle

\* a reopen without its self.set_channels(channels)
reopen_restore_skipped ==
    /\ CallerAt("reopen_restore")
    /\ saved' = NoBuf
    /\ cpc' = "idle"
    /\ ret' = <<"reopen", "Ok">>
    /\ UNCHANGED <<store, chans, worker, cur, sync_quiet>>
    /\ UNCHANGED aux
    /\ UNCHANGED cycle

\* DMXSerial::reopen, the rest: self.set_channels(channels); Ok(())
reopen_restore ==
    /\ CallerAt("reopen_restore")
    /\ channels' = [channels EXCEPT ![cur] = saved]
    /\ saved' = NoBuf
    /\ cpc' = "idle"
    /\ ret' = <<"reopen", "Ok">>
    /\ UNCHANGED <<name, is_sync, min_time_break_to_break, ever_sync, chans, worker,
                   cur, sync_quiet>>
    /\ UNCHANGED aux
    /\ UNCHANGED cycle

\* the caller drops the DMXSerial: agent.tx and agent.rx are dropped with it
drop ==
    /\ Idle
    /\ DropFacade(cur)
    /\ cpc' = "dropped"
    /\ UNCHANGED <<triggers, worker, cur, ret, saved, sync_quiet>>
    /\ UNCHANGED aux
    /\ UNCHANGED cycle

\* -------------------------------------------------------- the worker threads

\* a loop head that takes a queued trigger in async mode too
worker_check_mode_takes_trigger(g) ==
    /\ WorkerAt(g, "loop")
    /\ wpc' = [wpc EXCEPT ![g] = IF is_sync[g] THEN "recv" ELSE "read"]
    /\ triggers' = [triggers EXCEPT ![g] = IF ~is_sync[g] /\ @ > 0 THEN @ - 1 ELSE @]
    /\ UNCHANGED <<store, done_q, facade_alive, w_channels, cur, cpc, ret, saved,
                   sync_quiet>>
    /\ UNCHANGED aux
    /\ UNCHANGED cycle

\* loop head: if is_sync_view.read().unwrap().clone() { recv } else straight on
worker_check_mode(g) ==
    /\ WorkerAt(g, "loop")
    /\ wpc' = [wpc EXCEPT ![g] = IF is_sync[g] THEN "recv" ELSE "read"]
    /\ UNCHANGED <<store, chans, w_channels, cur, cpc, ret, saved, sync_quiet>>
    /\ UNCHANGED aux
    /\ UNCHANGED cycle

\* a recv() that leaves the trigger it returns in the queue
worker_recv_peek(g) ==
    /\ WorkerAt(g, "recv")
    /\ IF triggers[g] > 0
         THEN wpc' = [wpc EXCEPT ![g] = "read"]
         ELSE /\ ~facade_alive[g]
              /\ wpc' = [wpc EXCEPT ![g] = "exit"]
    /\ UNCHANGED <<store, chans, w_channels, cur, cpc, ret, saved, sync_quiet>>
    /\ UNCHANGED aux
    /\ took' = [took EXCEPT ![g] = triggers[g] > 0]
    /\ UNCHANGED untriggered

\* handler_rec.recv(): takes a queued trigger; with none queued it blocks while the
\* facade holds agent.tx and fails (break) once the facade is dropped
worker_recv(g) ==
    /\ WorkerAt(g, "recv")
    /\ IF triggers[g] > 0
         THEN /\ triggers' = [triggers EXCEPT ![g] = @ - 1]
              /\ wpc' = [wpc EXCEPT ![g] = "read"]
         ELSE /\ ~facade_alive[g]
              /\ wpc' = [wpc EXCEPT ![g] = "exit"]
              /\ UNCHANGED triggers
    /\ UNCHANGED <<store, done_q, facade_alive, w_channels, cur, cpc, ret, saved,
                   sync_quiet>>
    /\ UNCHANGED aux
    /\ took' = [took EXCEPT ![g] = triggers[g] > 0]
    /\ UNCHANGED untriggered

\* let channels = channel_view.read().unwrap().clone()
worker_read_channels(g) ==
    /\ WorkerAt(g, "read")
    /\ w_channels' = [w_channels EXCEPT ![g] = channels[g]]
    /\ wpc' = [wpc EXCEPT ![g] = "break"]
    /\ UNCHANGED <<store, chans, cur, cpc, ret, saved, sync_quiet>>
    /\ UNCHANGED aux
    /\ UNCHANGED cycle

\* send_dmx_packet up to the data: self.send_break()? (the set_* calls of the break
\* parameters and the write of one zero byte), then thread::sleep(TIME_BREAK_TO_DATA).
\* ok: every transport call returned Ok; else the `?` returns Err and the loop breaks.
send_break(g, ok) ==
    /\ WorkerAt(g, "break")
    /\ wpc' = [wpc EXCEPT ![g] = IF ok THEN "data" ELSE "exit"]
    /\ w_channels' = [w_channels EXCEPT ![g] = IF ok THEN @ ELSE NoBuf]
    /\ UNCHANGED <<store, chans, cur, cpc, ret, saved, sync_quiet>>
    /\ UNCHANGED aux
    /\ took' = [took EXCEPT ![g] = ok /\ @]
    /\ untriggered' = [untriggered EXCEPT ![g] =
                         IF is_sync[g] /\ ~took[g] /\ @ < MaxUntriggered THEN @ + 1 ELSE @]

\* a worker that starts the next iteration after a failed send_data
send_data_retry(g, ok) ==
    /\ WorkerAt(g, "data")
    /\ wpc' = [wpc EXCEPT ![g] = IF ok THEN "notify" ELSE "loop"]
    /\ w_channels' = [w_channels EXCEPT ![g] = IF ok THEN @ ELSE NoBuf]
    /\ UNCHANGED <<store, chans, cur, cpc, ret, saved, sync_quiet>>
    /\ UNCHANGED aux
    /\ took' = [took EXCEPT ![g] = ok /\ @]
    /\ UNCHANGED untriggered

\* send_dmx_packet from the data on: self.send_data(&prefixed_data)? (the set_* calls
\* of the data parameters and the write of the 513 bytes), then the pacing sleep.
send_data(g, ok) ==
    /\ WorkerAt(g, "data")
    /\ wpc' = [wpc EXCEPT ![g] = IF ok THEN "notify" ELSE "exit"]
    /\ w_channels' = [w_channels EXCEPT ![g] = IF ok THEN @ ELSE NoBuf]
    /\ UNCHANGED <<store, chans, cur, cpc, ret, saved, sync_quiet>>
    /\ UNCHANGED aux
    /\ took' = [took EXCEPT ![g] = ok /\ @]
    /\ UNCHANGED untriggered

\* the facade `self` is parked in agent.rx.recv() of instance g
ReceiverParked(g) == cur = g /\ CallerAt("update_wait")

\* The messages the completion channel of instance g can hold: its buffer, and one
\* more that is handed to a receiver parked in recv().  done_q counts both, the
\* handed one until the caller's recv() has returned with it.
TrySendRoom(g) == SYNC_CHANNEL_BOUND + (IF ReceiverParked(g) THEN 1 ELSE 0)

\* a worker that takes Disconnected for Full and goes on with the next iteration
worker_try_send_ignore_disconnected(g) ==
    /\ WorkerAt(g, "notify")
    /\ w_channels' = [w_channels EXCEPT ![g] = NoBuf]
    /\ wpc' = [wpc EXCEPT ![g] = "loop"]
    /\ done_q' = [done_q EXCEPT ![g] =
                    IF facade_alive[g] /\ @ < TrySendRoom(g) THEN @ + 1 ELSE @]
    /\ UNCHANGED <<store, triggers, facade_alive, cur, cpc, ret, saved, sync_quiet>>
    /\ UNCHANGED aux
    /\ took' = [took EXCEPT ![g] = FALSE]
    /\ UNCHANGED untriggered

\* a worker that reads the mode once, before its loop: an iteration that took no
\* trigger is followed by another that takes none
worker_try_send_fixed_mode(g) ==
    /\ WorkerAt(g, "notify")
    /\ w_channels' = [w_channels EXCEPT ![g] = NoBuf]
    /\ IF ~facade_alive[g]
         THEN /\ wpc' = [wpc EXCEPT ![g] = "exit"]
              /\ UNCHANGED done_q
         ELSE /\ wpc' = [wpc EXCEPT ![g] = IF took[g] THEN "recv" ELSE "read"]
              /\ done_q' = [done_q EXCEPT ![g] = IF @ < TrySendRoom(g) THEN @ + 1 ELSE @]
    /\ UNCHANGED <<store, triggers, facade_alive, cur, cpc, ret, saved, sync_quiet>>
    /\ UNCHANGED aux
    /\ took' = [took EXCEPT ![g] = FALSE]
    /\ UNCHANGED untriggered

\* handler.try_send(()) on the sync_channel: Disconnected (break) when the facade's
\* receiver is dropped; handed to a receiver parked in recv(), which returns in a
\* step of its own; buffered while the buffer has room; else Full, which the worker
\* ignores.  Then the next iteration.
worker_try_send(g) ==
    /\ WorkerAt(g, "notify")
    /\ w_channels' = [w_channels EXCEPT ![g] = NoBuf]
    /\ IF ~facade_alive[g]
         THEN /\ wpc' = [wpc EXCEPT ![g] = "exit"]
              /\ UNCHANGED done_q
         ELSE /\ wpc' = [wpc EXCEPT ![g] = "loop"]
              /\ done_q' = [done_q EXCEPT ![g] = IF @ < TrySendRoom(g) THEN @ + 1 ELSE @]
    /\ UNCHANGED <<store, triggers, facade_alive, cur, cpc, ret, saved, sync_quiet>>
    /\ UNCHANGED aux
    /\ took' = [took EXCEPT ![g] = FALSE]
    /\ UNCHANGED untriggered

\* the closure returns, first part: handler_rec is dropped, and the triggers still
\* queued in it with it; channel_view and is_sync_view are dropped, which frees the
\* channels and the mode if the facade is gone; the drop of the agent begins
worker_drop_receiver(g) ==
    /\ WorkerAt(g, "exit")
    /\ wpc' = [wpc EXCEPT ![g] = "closing"]
    /\ triggers' = [triggers EXCEPT ![g] = 0]
    /\ channels' = [channels EXCEPT ![g] = IF facade_alive[g] THEN @ ELSE NoBuf]
    /\ is_sync' = [is_sync EXCEPT ![g] = IF facade_alive[g] THEN @ ELSE FreedSync]
    /\ ever_sync' = [ever_sync EXCEPT ![g] = IF facade_alive[g] THEN @ ELSE FreedSync]
    /\ UNCHANGED <<name, min_time_break_to_break, done_q, facade_alive, w_channels, cur,
                   cpc, ret, saved, sync_quiet>>
    /\ UNCHANGED aux
    /\ untriggered' = [untriggered EXCEPT ![g] = 0]
    /\ UNCHANGED took

\* the closure returns, the rest: the agent is dropped (the port is closed, the
\* packet time is freed if the facade is gone), then handler; a message handed to
\* the facade's recv() before stays its own
worker_exit(g) ==
    /\ WorkerAt(g, "closing")
    /\ wpc' = [wpc EXCEPT ![g] = "dead"]
    /\ min_time_break_to_break' =
         [min_time_break_to_break EXCEPT ![g] = IF facade_alive[g] THEN @ ELSE FreedTime]
    /\ UNCHANGED <<name, channels, is_sync, ever_sync, chans, w_channels, cur, cpc, ret,
                   saved, sync_quiet>>
    /\ UNCHANGED aux
    /\ UNCHANGED cycle

\* ---------------------------------------------------------------------- Next

Caller ==
    \/ open_sync
    \/ \E c \in ChannelArgs, v \in ValueArgs : set_channel(c, v)
    \/ \E a \in Arrays : set_channels(a)
    \/ reset_channels
    \/ set_sync
    \/ set_async
    \/ \E t \in PacketTimes : set_packet_time(t)
    \/ update_async
    \/ update
    \/ check_agent
    \/ \E ok \in BOOLEAN : reopen_open(ok)
    \/ reopen_assign
    \/ reopen_restore
    \/ drop

CallerWait ==
    \/ wait_for_update
    \/ wait_for_update_return
    \/ wait_for_update_disconnected

Worker(g) ==
    \/ worker_check_mode(g)
    \/ worker_recv(g)
    \/ worker_read_channels(g)
    \/ \E ok \in BOOLEAN : send_break(g, ok)
    \/ \E ok \in BOOLEAN : send_data(g, ok)
    \/ worker_try_send(g)
    \/ worker_drop_receiver(g)
    \/ worker_exit(g)

Next ==
    \/ Caller
    \/ CallerWait
    \/ \E g \in 1 .. MaxGen : Worker(g)

Spec == Init /\ [][Next]_vars

\* Scheduling: every thread that can take a step eventually takes one.  A worker
\* thread runs whenever it is not blocked in recv(), and its transport calls return
\* (with Ok or with an error).  The caller's thread, once inside open_sync, update
\* or reopen, runs on to the end of the call; whether it makes another call is up
\* to the program, so no fairness is stated for the calls themselves.
CallerInCall == open_sync \/ reopen_assign \/ reopen_restore \/ CallerWait

FairSpec ==
    /\ Spec
    /\ \A g \in 1 .. MaxGen : WF_vars(Worker(g))
    /\ WF_vars(CallerInCall)

\* ------------------------------------------------ one DMXSerial, never replaced

\* every call on a DMXSerial but a reopen() whose open succeeds
InstanceCaller ==
    \/ open_sync
    \/ \E c \in ChannelArgs, v \in ValueArgs : set_channel(c, v)
    \/ \E a \in Arrays : set_channels(a)
    \/ reset_channels
    \/ set_sync
    \/ set_async
    \/ \E t \in PacketTimes : set_packet_time(t)
    \/ update_async
    \/ update
    \/ check_agent
    \/ reopen_open(FALSE)
    \/ drop

InstanceNext ==
    \/ InstanceCaller
    \/ CallerWait
    \/ Worker(1)

\* One DMXSerial from open to drop and its worker thread, the caller making any
\* call; Spec with no instance put in the place of the first
InstanceSpec == Init /\ [][InstanceNext]_vars

\* InstanceSpec scheduled as FairSpec is
InstanceFairSpec ==
    /\ InstanceSpec
    /\ WF_vars(Worker(1))
    /\ WF_vars(open_sync \/ CallerWait)

\* ------------------------------------- send_dmx_packet, one transport call a step

\* Worker 1's position inside send_dmx_packet is apc: 0 outside it; 1 .. 6 before
\* the 1st .. 6th call of send_break; 7 before thread::sleep(TIME_BREAK_TO_DATA);
\* 8 .. 13 before the 1st .. 6th call of send_data; 14 before the pacing sleep.
\* Each call takes a time d of Durations, each sleep oversleeps by such a time.

\* let start = time::Instant::now()
send_dmx_packet_start ==
    /\ WorkerAt(1, "break")
    /\ apc = 0
    /\ apc' = 1
    /\ wire' = <<>>
    /\ elapsed' = 0
    /\ UNCHANGED <<store, chans, worker, cur, cpc, ret, saved, sync_quiet, agent_port,
                   since_break>>
    /\ UNCHANGED locks
    /\ UNCHANGED cycle

\* the call `call` on self.port, followed by `?`: on Ok the next position, on Err
\* send_dmx_packet returns the error and the worker's loop breaks
transport_call(call, ok, d) ==
    /\ elapsed' = After(elapsed, d)
    /\ IF ok
         THEN /\ agent_port' = PortAfter(agent_port, call)
              /\ \E n \in AcceptedBy(call) : wire' = WireAfter(wire, agent_port, call, n)
              /\ apc' = apc + 1
              /\ UNCHANGED worker
         ELSE /\ wpc' = [wpc EXCEPT ![1] = "exit"]
              /\ w_channels' = [w_channels EXCEPT ![1] = NoBuf]
              /\ apc' = 0
              /\ UNCHANGED <<agent_port, wire>>
    /\ UNCHANGED <<store, chans, cur, cpc, ret, saved, sync_quiet>>
    /\ UNCHANGED locks
    /\ UNCHANGED cycle

\* self.send_break()?, its next call; since_break is counted from where the write
\* of the break begins
send_break_call(ok, d) ==
    /\ WorkerAt(1, "break")
    /\ apc \in 1 .. 6
    /\ transport_call(send_break_calls[apc], ok, d)
    /\ since_break' = IF ok /\ apc = 6 THEN d ELSE After(since_break, d)

\* thread::sleep(TIME_BREAK_TO_DATA)
sleep_break_to_data(d) ==
    /\ WorkerAt(1, "break")
    /\ apc = 7
    /\ apc' = 8
    /\ wpc' = [wpc EXCEPT ![1] = "data"]
    /\ wire' = WireAfterSleep(wire, agent_port, TIME_BREAK_TO_DATA)
    /\ elapsed' = After(elapsed, TIME_BREAK_TO_DATA + d)
    /\ since_break' = After(since_break, TIME_BREAK_TO_DATA + d)
    /\ UNCHANGED <<store, chans, w_channels, cur, cpc, ret, saved, sync_quiet,
                   agent_port>>
    /\ UNCHANGED locks
    /\ UNCHANGED cycle

\* self.send_data(&prefixed_data)?, its next call
send_data_call(ok, d) ==
    /\ WorkerAt(1, "data")
    /\ apc \in 8 .. 13
    /\ transport_call(send_data_calls(prefixed_data(w_channels[1]))[apc - 7], ok, d)
    /\ since_break' = After(since_break, d)

\* thread::sleep(self.min_b2b.read().unwrap().saturating_sub(start.elapsed())); Ok(())
pacing_sleep(d) ==
    /\ WorkerAt(1, "data")
    /\ apc = 14
    /\ apc' = 0
    /\ wpc' = [wpc EXCEPT ![1] = "notify"]
    /\ LET us == saturating_sub(min_time_break_to_break[1], elapsed)
       IN  /\ elapsed' = After(elapsed, us + d)
           /\ since_break' = After(since_break, us + d)
    /\ UNCHANGED <<store, chans, w_channels, cur, cpc, ret, saved, sync_quiet,
                   agent_port, wire>>
    /\ UNCHANGED locks
    /\ UNCHANGED cycle

\* The state when DMXSerial::open has returned and the caller has set a packet time
FrameInit ==
    /\ name = <<Port>>
    /\ channels = <<Filled(0)>>
    /\ is_sync = <<FALSE>>
    /\ min_time_break_to_break \in {<<t>> : t \in PacingTimes}
    /\ triggers = <<0>>
    /\ done_q = <<0>>
    /\ facade_alive = <<TRUE>>
    /\ wpc = <<"loop">>
    /\ w_channels = <<NoBuf>>
    /\ cur = 1
    /\ cpc = "idle"
    /\ ret = <<"set_packet_time", "Ok">>
    /\ saved = NoBuf
    /\ ever_sync = <<FALSE>>
    /\ sync_quiet = FALSE
    /\ took = <<FALSE>>
    /\ untriggered = <<0>>
    /\ AuxInit

\* the worker of instance 1 with send_dmx_packet taken call by call
FrameWorker ==
    \/ worker_check_mode(1)
    \/ worker_read_channels(1)
    \/ send_dmx_packet_start
    \/ \E ok \in BOOLEAN, d \in Durations : send_break_call(ok, d)
    \/ \E d \in Durations : sleep_break_to_data(d)
    \/ \E ok \in BOOLEAN, d \in Durations : send_data_call(ok, d)
    \/ \E d \in Durations : pacing_sleep(d)
    \/ worker_try_send(1)
    \/ worker_drop_receiver(1)
    \/ worker_exit(1)

\* the caller's writes of the channel store
FrameCaller ==
    \/ \E c \in ChannelArgs, v \in ValueArgs : set_channel(c, v)
    \/ \E a \in Arrays : set_channels(a)
    \/ reset_channels

FrameNext == FrameCaller \/ FrameWorker

\* One instance in async mode, its worker sending frames one transport call at a
\* time while the caller writes the channel store
FrameSpec == FrameInit /\ [][FrameNext]_vars

\* ------------------------------------------ the channels' RwLock, step by step

\* An array is copied in two parts: element 0, then the elements from 1 on.

\* dst after the first part of the copy of src to it
CopyFirst(dst, src) == IF dst.len = 0 THEN Repeat(At(src, 0), 1) ELSE Put(dst, 0, At(src, 0))

\* dst after the second part of the copy of src to it
CopyRest(dst, src) == Put(src, 0, At(dst, 0))

\* a read() that does not wait for the writer
CanReadUnlocked == TRUE

\* RwLock::read returns: no writer holds the lock
CanRead == lock.writers = {}

\* RwLock::write returns: nobody holds the lock
CanWrite == lock.writers = {} /\ lock.readers = {}

\* channel_view.read().unwrap(): the worker takes the lock shared
worker_read_lock ==
    /\ WorkerAt(1, "read")
    /\ CanRead
    /\ lock' = [lock EXCEPT !.readers = @ \cup {"worker"}]
    /\ wpc' = [wpc EXCEPT ![1] = "read_locked"]
    /\ UNCHANGED <<store, chans, w_channels, cur, cpc, ret, saved, sync_quiet, frame,
                   c_channels>>
    /\ UNCHANGED cycle

\* .clone(), first part
worker_clone_first ==
    /\ WorkerAt(1, "read_locked")
    /\ w_channels' = [w_channels EXCEPT ![1] = CopyFirst(@, channels[1])]
    /\ wpc' = [wpc EXCEPT ![1] = "read_cloning"]
    /\ UNCHANGED <<store, chans, cur, cpc, ret, saved, sync_quiet, aux>>
    /\ UNCHANGED cycle

\* .clone(), second part; the guard is dropped at the end of the statement
worker_clone_rest ==
    /\ WorkerAt(1, "read_cloning")
    /\ w_channels' = [w_channels EXCEPT ![1] = CopyRest(@, channels[1])]
    /\ lock' = [lock EXCEPT !.readers = @ \ {"worker"}]
    /\ wpc' = [wpc EXCEPT ![1] = "break"]
    /\ UNCHANGED <<store, chans, cur, cpc, ret, saved, sync_quiet, frame, c_channels>>
    /\ UNCHANGED cycle

\* set_channels(values) and reset_channels(): self.channels.write().unwrap(), the
\* caller takes the lock exclusive; `values` is what it is about to store
\* (reset_channels: fill(0))
caller_write_lock(fn, values) ==
    /\ Idle
    /\ CanWrite
    /\ lock' = [lock EXCEPT !.writers = @ \cup {"caller"}]
    /\ c_channels' = values
    /\ cpc' = fn
    /\ UNCHANGED <<store, chans, worker, cur, ret, saved, sync_quiet, frame>>
    /\ UNCHANGED cycle

\* the store through the write guard, first part
caller_store_first(fn) ==
    /\ CallerAt(fn)
    /\ "caller" \in lock.writers
    /\ channels' = [channels EXCEPT ![cur] = CopyFirst(@, c_channels)]
    /\ cpc' = "storing"
    /\ ret' = <<fn, "storing">>
    /\ UNCHANGED <<name, is_sync, min_time_break_to_break, ever_sync, chans, worker,
                   cur, saved, sync_quiet, aux>>
    /\ UNCHANGED cycle

\* the store through the write guard, second part; the guard is dropped
caller_store_rest ==
    /\ CallerAt("storing")
    /\ channels' = [channels EXCEPT ![cur] = CopyRest(@, c_channels)]
    /\ lock' = [lock EXCEPT !.writers = @ \ {"caller"}]
    /\ c_channels' = NoBuf
    /\ cpc' = "idle"
    /\ ret' = <<ret[1], "Ok">>
    /\ UNCHANGED <<name, is_sync, min_time_break_to_break, ever_sync, chans, worker,
                   cur, saved, sync_quiet, frame>>
    /\ UNCHANGED cycle

\* get_channels(): self.channels.read().unwrap(), the caller takes the lock shared
caller_read_lock ==
    /\ Idle
    /\ CanRead
    /\ lock' = [lock EXCEPT !.readers = @ \cup {"caller"}]
    /\ cpc' = "get_channels"
    /\ UNCHANGED <<store, chans, worker, cur, ret, saved, sync_quiet, frame, c_channels>>
    /\ UNCHANGED cycle

\* get_channels(): .clone(), first part
caller_clone_first ==
    /\ CallerAt("get_channels")
    /\ c_channels' = CopyFirst(c_channels, channels[cur])
    /\ cpc' = "cloning"
    /\ UNCHANGED <<store, chans, worker, cur, ret, saved, sync_quiet, frame, lock>>
    /\ UNCHANGED cycle

\* get_channels(): .clone(), second part; the guard is dropped and the clone returned
\* (the caller's local goes out of scope)
caller_clone_rest ==
    /\ CallerAt("cloning")
    /\ c_channels' = NoBuf
    /\ lock' = [lock EXCEPT !.readers = @ \ {"caller"}]
    /\ cpc' = "idle"
    /\ ret' = <<"get_channels", "Ok">>
    /\ UNCHANGED <<store, chans, worker, cur, saved, sync_quiet, frame>>
    /\ UNCHANGED cycle

\* the caller's accesses to the channels
LockCaller ==
    \/ \E a \in Arrays : caller_write_lock("set_channels", a)
    \/ caller_write_lock("reset_channels", Filled(0))
    \/ \E fn \in {"set_channels", "reset_channels"} : caller_store_first(fn)
    \/ caller_store_rest
    \/ caller_read_lock
    \/ caller_clone_first
    \/ caller_clone_rest

\* the worker of instance 1 with its read of the channels taken step by step
LockWorker ==
    \/ worker_check_mode(1)
    \/ worker_read_lock
    \/ worker_clone_first
    \/ worker_clone_rest
    \/ \E ok \in BOOLEAN : send_break(1, ok)
    \/ \E ok \in BOOLEAN : send_data(1, ok)
    \/ worker_try_send(1)
    \/ worker_drop_receiver(1)
    \/ worker_exit(1)

LockNext == LockCaller \/ LockWorker

\* the state when DMXSerial::open has returned to the caller
LockInit == Init /\ cpc = "idle"

\* One instance in async mode: the worker reads the channels for its frames while
\* the caller stores whole arrays to them and reads them, each access taking the
\* lock and copying in two parts
LockSpec == LockInit /\ [][LockNext]_vars

\* -------------------------------------------------- the caller's calls alone

\* the calls that read and write the store and the trigger queue, with more
\* arguments than in Spec
StoreNext ==
    \/ \E c \in StoreChannelArgs, v \in StoreValueArgs : set_channel(c, v)
    \/ \E a \in Arrays : set_channels(a)
    \/ reset_channels
    \/ set_sync
    \/ update_async

\* the state when DMXSerial::open has returned to the caller
StoreInit == Init /\ cpc = "idle"

\* The caller's calls between two steps of the worker: set_channel and get_channel
\* as functions of their arguments and of the store
StoreSpec == StoreInit /\ [][StoreNext]_vars

\* ------------------------------------------- one instance and its one worker

\* the calls on one DMXSerial that is never reopened: the store, the mode, the
\* triggers and the drop
SyncCaller ==
    \/ open_sync
    \/ \E a \in Arrays : set_channels(a)
    \/ set_sync
    \/ set_async
    \/ update_async
    \/ update
    \/ drop

SyncNext ==
    \/ SyncCaller
    \/ CallerWait
    \/ Worker(1)

\* One DMXSerial from open to drop with its worker thread, scheduled as in FairSpec:
\* the worker runs whenever it is not blocked in recv(), and the caller's thread
\* runs on to the end of open_sync and of update
SyncSpec ==
    /\ Init
    /\ [][SyncNext]_vars
    /\ WF_vars(Worker(1))
    /\ WF_vars(open_sync \/ CallerWait)

\* --------------------------------------------- the facades and their workers

\* the calls that make, replace and drop a DMXSerial, set its mode and queue
\* triggers; the values of the channels stay as they are
DropCaller ==
    \/ open_sync
    \/ set_sync
    \/ set_async
    \/ update_async
    \/ \E ok \in BOOLEAN : reopen_open(ok)
    \/ reopen_assign
    \/ reopen_restore
    \/ drop

DropNext ==
    \/ DropCaller
    \/ \E g \in 1 .. MaxGen : Worker(g)

\* The instances of one DMXSerial variable from open to drop with their worker
\* threads, scheduled as in FairSpec: every worker runs whenever it is not blocked
\* in recv(), and the caller's thread runs on to the end of open_sync and of reopen
DropSpec ==
    /\ Init
    /\ [][DropNext]_vars
    /\ \A g \in 1 .. MaxGen : WF_vars(Worker(g))
    /\ WF_vars(open_sync \/ reopen_assign \/ reopen_restore)

\* ------------------------------------------ reopen and the channels it carries

\* the calls that write the channels of a DMXSerial, set it to sync mode, probe
\* its worker and replace it
ReopenCaller ==
    \/ \E a \in Arrays : set_channels(a)
    \/ set_sync
    \/ check_agent
    \/ \E ok \in BOOLEAN : reopen_open(ok)
    \/ reopen_assign
    \/ reopen_restore

ReopenNext ==
    \/ ReopenCaller
    \/ \E g \in 1 .. MaxGen : Worker(g)

\* The instances of one DMXSerial variable with their worker threads, the caller
\* writing the channels, setting the mode, probing the worker and calling reopen()
ReopenSpec == StoreInit /\ [][ReopenNext]_vars

\* --------------------------------------------- reopen and what it starts anew

\* the calls that give a DMXSerial channel values, a mode, a packet time and queued
\* triggers of its own, and a reopen() whose open succeeds
ResetCaller ==
    \/ \E a \in Arrays : set_channels(a)
    \/ \E t \in PacketTimes : set_packet_time(t)
    \/ set_sync
    \/ update_async
    \/ reopen_open(TRUE)
    \/ reopen_assign
    \/ reopen_restore

ResetNext ==
    \/ ResetCaller
    \/ \E g \in 1 .. MaxGen : Worker(g)

\* The instances of one DMXSerial variable with their worker threads, the caller
\* setting up the instance and replacing it by reopen()
ResetSpec == StoreInit /\ [][ResetNext]_vars

\* ------------------------------------------------------------------- claims

\* the caller is inside update(): the trigger is sent and the completion is awaited
InUpdate == cpc \in {"update_sent", "update_wait"}

\* C1: every call of update() eventually returns (code_bug: stated as claimed).
\* In sync mode the worker can consume the trigger, send the frame and run
\* try_send before the caller has entered recv(): the completion is dropped (Full),
\* the worker blocks on the next trigger and the caller blocks in recv() for ever.
C1_UpdateReturns == [](InUpdate => <>(cpc = "idle"))

\* C2: whenever update() returns Ok, the frame whose completion it received carries
\* the channel values of the store, which are those the caller set before the call
\* (code_bug: stated as claimed).  The completion is handed to the caller, parked in
\* recv(), by the try_send that ends the frame; the snapshot of that frame is
\* w_channels, and the store stays as it is until update() has returned.
C2_UpdateOkFrameCurrent ==
    [][(ReceiverParked(cur) /\ done_q'[cur] > done_q[cur])
          => w_channels[cur] = channels[cur]]_vars

\* C3: after open_sync, while neither update() nor update_async() has been called,
\* the worker of that instance makes no transport call (code_bug: stated as claimed).
C3_SyncQuietNoTransport ==
    [][sync_quiet => ~(\E ok \in BOOLEAN : send_break(1, ok))]_vars

\* the facade is alive, in async mode, and its worker has met no transport error
AsyncAlive ==
    /\ cpc # "dropped"
    /\ facade_alive[cur]
    /\ ~is_sync[cur]
    /\ ~LoopLeft(cur)

\* C4: if from some point on the facade stays alive and in async mode and the
\* transport works, the worker starts a new frame again and again
\* (code_bug: stated as claimed).
C4_AsyncKeepsSending == <>[]AsyncAlive => []<>(wpc[cur] = "break")

\* the calls whose result depends on the worker
AgentCalls == {"check_agent", "update", "update_async"}

\* C5 as claimed: from the transport error on (the worker has left its loop), every
\* check_agent(), update() and update_async() that returns, returns the
\* disconnection error.
C5_ErrorFromThenOn ==
    [][(LoopLeft(cur) /\ ret' # ret /\ ret'[1] \in AgentCalls)
          => ret'[2] = "Disconnected"]_vars

\* C5 amended: a transport error inside a frame send ends the worker: from "break"
\* and "data" it goes on or to "exit", never back to the loop, and from "exit" it
\* drops its endpoints one after the other; the failing call returns nothing to
\* the caller and signals no completion, and no completion is signalled after it.
\* Every update_async() and update() called once the worker has dropped its
\* receiver, and every check_agent() called once the worker has finished, returns
\* the disconnection error at once, until reopen() makes `self` another instance.
\* An update() that was waiting when the error occurred returns Ok if a completion
\* had been handed to it before, else the error once the worker has finished.
C5_TransportErrorIsFatal ==
    [][/\ \A g \in Gens :
            /\ wpc[g] = "break" => wpc'[g] \in {"break", "data", "exit"}
            /\ wpc[g] = "data" => wpc'[g] \in {"data", "notify", "exit"}
            /\ wpc[g] = "exit" => wpc'[g] \in {"exit", "closing"}
            /\ wpc[g] = "closing" => wpc'[g] \in {"closing", "dead"}
            /\ wpc[g] = "dead" => wpc'[g] = "dead"
            /\ (wpc[g] \in {"break", "data"} /\ wpc'[g] = "exit")
                 => (ret' = ret /\ cpc' = cpc /\ done_q'[g] = done_q[g])
            /\ LoopLeft(g) => done_q'[g] <= done_q[g]
       /\ ((update_async \/ update) /\ ReceiverDropped(cur))
             => (ret'[2] = "Disconnected" /\ cpc' = "idle")
       /\ (check_agent /\ WorkerGone(cur)) => ret'[2] = "Disconnected"
       /\ (cpc = "update_wait" /\ cpc' = "idle")
             => ret' = <<"update", IF done_q[cur] > 0 THEN "Ok" ELSE "Disconnected">>
       /\ (cpc = "update_wait" /\ WorkerGone(cur)) => ENABLED CallerWait
      ]_vars

\* C5 witness: the worker of the live facade has finished (only a transport error
\* ends a worker whose facade is alive) and update() has returned the error
C5_Witness ==
    /\ facade_alive[cur]
    /\ WorkerGone(cur)
    /\ ret = <<"update", "Disconnected">>

\* C6: reopen() takes get_channels() as it is just before the call; its open makes
\* a new instance of the same name; `self` becomes that instance, another than
\* before, with its facade's endpoints open; and when reopen() returns Ok,
\* get_channels() is the value taken and name() the same still, and check_agent()
\* is Ok unless that new worker has itself finished already.  Between the steps of
\* reopen() nothing else changes the value taken or the name.
C6_ReopenKeepsChannels ==
    [][/\ (cpc = "idle" /\ cpc' = "reopen_assign")
          => /\ saved' = get_channels
             /\ name'[Len(name')] = GetName
       /\ (cpc = "reopen_assign" /\ cpc' = "reopen_restore")
          => /\ GetName' = GetName
             /\ cur' # cur
             /\ cur' \in DOMAIN wpc'
             /\ facade_alive'[cur']
       /\ (cpc = "reopen_restore" /\ cpc' = "idle")
          => /\ ret' = <<"reopen", "Ok">>
             /\ get_channels' = saved
             /\ facade_alive'[cur']
             /\ (wpc'[cur'] # "dead" => check_agent_result' = "Ok")
       /\ cpc \in {"reopen_assign", "reopen_restore"}
          => /\ cpc' # "idle" => saved' = saved
             /\ cpc' = cpc => (UNCHANGED cur /\ GetName' = GetName
                               /\ name'[Len(name')] = name[Len(name)])
      ]_vars

\* C6 witness: reopen() returned Ok on a facade whose worker had finished, the
\* channel values set before are in place and the new worker is running
C6_Witness ==
    /\ ret = <<"reopen", "Ok">>
    /\ cur = 2
    /\ wpc[1] = "dead"
    /\ get_channels = Filled(255)
    /\ wpc[cur] = "notify"
    /\ check_agent_result = "Ok"

\* C7: when reopen() returns the open error, nothing of the facade has changed:
\* store, channels' endpoints, workers (none spawned), `self`, and the caller is
\* back at idle, so check_agent() answers as before and reopen() can be called again.
C7_FailedReopenChangesNothing ==
    [][(cpc = "idle" /\ ret' = <<"reopen", "OpenError">> /\ ret' # ret)
          => /\ UNCHANGED <<store, chans, worker, cur, cpc, saved>>
             /\ check_agent_result' = check_agent_result
      ]_vars

\* C7 witness: reopen() failed on a facade whose worker has finished and whose
\* channels are not the zeroed default
C7_Witness ==
    /\ ret = <<"reopen", "OpenError">>
    /\ Len(wpc) = 1
    /\ WorkerGone(cur)
    /\ facade_alive[cur]
    /\ get_channels = Filled(255)
    /\ check_agent_result = "Disconnected"

\* C8: check_agent() takes no completion signal and changes neither the trigger
\* queue nor the channel store: the completion channel never holds a message, so
\* its try_recv finds none to take.
C8_CheckAgentTakesNothing ==
    [][check_agent => UNCHANGED <<done_q, triggers, channels>>]_vars

\* C8 witness: check_agent() has returned Ok while the worker is about to signal
\* the completion of a frame
C8_Witness ==
    /\ ret = <<"check_agent", "Ok">>
    /\ cpc = "idle"
    /\ wpc[cur] = "notify"

\* C9 as claimed: at most one trigger is outstanding at any time.
C9_AtMostOneTrigger == \A g \in Gens : triggers[g] <= 1

\* C9 amended: the trigger path is an unbounded queue.  update_async() never waits
\* for the worker: whenever the caller is idle and the worker holds its receiver, it
\* can return Ok at once with one more trigger pending, however many are pending
\* already (up to the cap MaxTrig of this model).
C9_UpdateAsyncQueues ==
    (Idle /\ ~ReceiverDropped(cur) /\ triggers[cur] < MaxTrig)
        => ENABLED (/\ update_async
                    /\ triggers'[cur] = triggers[cur] + 1
                    /\ ret' = <<"update_async", "Ok">>)

\* C9 witness: two triggers are pending after an update_async() that returned Ok
C9_Witness ==
    /\ ret = <<"update_async", "Ok">>
    /\ triggers[cur] = 2

\* C10 as claimed: two triggers queued on a facade that has always been in async
\* mode are eventually serviced (the worker takes one from the queue), given a
\* working transport and a live facade, unless the mode is set to sync first.
C10_TriggersServiced ==
    (triggers[1] = 2 /\ ~ever_sync[1])
        ~> \/ triggers[1] < 2
           \/ ever_sync[1]
           \/ ~facade_alive[1]
           \/ LoopLeft(1)

\* C10 amended: update_async() returns Ok while the worker holds its receiver and
\* leaves the channel buffer, the mode flag and the packet interval unchanged; on an
\* instance that has never been set to sync mode the worker takes no trigger at
\* all: the triggers stay queued while its frames go on.
C10_AsyncLeavesTriggersQueued ==
    [][/\ \A g \in Gens :
            (~ever_sync[g] /\ ~ReceiverDropped(g)') => triggers'[g] >= triggers[g]
       /\ update_async
            => /\ UNCHANGED <<channels, is_sync, min_time_break_to_break>>
               /\ ~ReceiverDropped(cur) => ret' = <<"update_async", "Ok">>
      ]_vars

\* C10 witness: after open() in async mode two update_async() calls have returned
\* Ok, both triggers are queued and the worker has just sent a frame
C10_Witness ==
    /\ ret = <<"update_async", "Ok">>
    /\ ~ever_sync[cur]
    /\ triggers[cur] = 2
    /\ wpc[cur] = "notify"

\* the line as send_break sets it
break_line ==
    [baud_rate |-> 57600, data_bits |-> "Seven", stop_bits |-> "One", parity |-> "None",
     flow_control |-> "None"]

\* the line as send_data sets it
data_line ==
    [baud_rate |-> 250000, data_bits |-> "Eight", stop_bits |-> "Two", parity |-> "None",
     flow_control |-> "None"]

\* C11 as claimed: in FrameSpec, what a frame has put on the line is at every moment
\* the beginning of: one zero byte written at 57600 baud, 7 data bits, 1 stop bit,
\* no parity; a gap of TIME_BREAK_TO_DATA; exactly 513 bytes written at 250000
\* baud, 8 data bits, 2 stop bits, no parity, byte 0 being 0 and byte i the
\* snapshot's channel i (its element i - 1) for i in 1 .. 512.  A frame that has
\* returned Ok has put all of it there.  When a call of send_break fails the worker
\* is on its way out with nothing of the frame written, and a worker on its way
\* out writes no more.
C11_FrameOnTheWire ==
    /\ [](/\ Len(wire) <= 3
          /\ Len(wire) >= 1 =>
               wire[1] = [op |-> "write", line |-> break_line,
                          data |-> Repeat(0, 1), us |-> 0]
          /\ Len(wire) >= 2 =>
               wire[2] = [op |-> "sleep", line |-> break_line,
                          data |-> NoBuf, us |-> TIME_BREAK_TO_DATA]
          /\ Len(wire) >= 3 =>
               /\ wire[3].op = "write"
               /\ wire[3].line = data_line
               /\ wire[3].data.len = DMX_CHANNELS + 1
               /\ At(wire[3].data, 0) = 0
               /\ wpc[1] \in {"data", "notify"} =>
                    \A i \in 1 .. DMX_CHANNELS :
                        At(wire[3].data, i) = At(w_channels[1], i - 1)
          /\ wpc[1] = "notify" => Len(wire) = 3)
    /\ [][/\ (apc \in 1 .. 6 /\ wpc'[1] = "exit") => wire' = <<>>
          /\ LoopLeft(1) => wire' = wire]_vars

\* What holds of a frame in FrameSpec: the calls are made in the order of C11, the
\* one write of send_break is handed one zero byte and the one write of send_data
\* the 513 bytes of C11; on the line are the bytes each write accepted, all of its
\* buffer or the first of them (of the break: the byte or nothing), and the frame
\* returns Ok either way.
FramePrefixOnTheWire ==
    /\ [](/\ Len(wire) <= 3
          /\ Len(wire) >= 1 =>
               /\ wire[1].op = "write"
               /\ wire[1].line = break_line
               /\ wire[1].us = 0
               /\ wire[1].data.len \in {1} \cup {k \in ShortWrites : k < 1}
               /\ wire[1].data = Prefix(Repeat(0, 1), wire[1].data.len)
          /\ Len(wire) >= 2 =>
               wire[2] = [op |-> "sleep", line |-> break_line,
                          data |-> NoBuf, us |-> TIME_BREAK_TO_DATA]
          /\ Len(wire) >= 3 =>
               /\ wire[3].op = "write"
               /\ wire[3].line = data_line
               /\ wire[3].data.len \in
                      {DMX_CHANNELS + 1} \cup {k \in ShortWrites : k < DMX_CHANNELS + 1}
               /\ wpc[1] \in {"data", "notify"} =>
                    wire[3].data = Prefix(prefixed_data(w_channels[1]), wire[3].data.len)
          /\ wpc[1] = "notify" => Len(wire) = 3)
    /\ [][/\ (apc \in 1 .. 6 /\ wpc'[1] = "exit") => wire' = <<>>
          /\ LoopLeft(1) => wire' = wire]_vars

\* a frame has returned Ok whose snapshot has channel 1 at 255 and the other
\* channels at 0, with no break byte and 100 of its 513 bytes on the line
ShortFrameSent ==
    /\ wpc[1] = "notify"
    /\ w_channels[1] = Put(Filled(0), 0, 255)
    /\ Len(wire) = 3
    /\ wire[1].data.len = 0
    /\ wire[3].data.len = 100
    /\ At(wire[3].data, 1) = 255
    /\ At(wire[3].data, 2) = 0

\* C12 as claimed: in FrameSpec, whenever the worker begins the write of a break,
\* at least the configured packet interval has passed since it began the write of
\* the break before (since_break is at its stop, MaxClock, before the first break).
C12_BreakToBreak ==
    [][(apc = 6 /\ apc' = 7) => since_break >= min_time_break_to_break[1]]_vars

\* the arrays that have been the whole content of the channels in LockSpec
WholeArrays == {Filled(0)} \cup Arrays

\* C13: in LockSpec, a writer of the channels' lock holds it alone (no reader, no
\* other writer); every snapshot the worker has read, which is the payload of the
\* frame it then sends, is one of the arrays the caller stored whole, and is the
\* content of the channels at the instant its read ends; and so is every array
\* that get_channels() returns.
C13_NoTornBuffer ==
    /\ [](/\ Cardinality(lock.writers) <= 1
          /\ lock.writers # {} => lock.readers = {}
          /\ wpc[1] \in {"break", "data", "notify"} => w_channels[1] \in WholeArrays)
    /\ [][/\ (wpc[1] = "read_cloning" /\ wpc'[1] = "break")
               => w_channels'[1] = channels[1]
          /\ (cpc = "cloning" /\ cpc' = "idle")
               => /\ CopyRest(c_channels, channels[cur]) = channels[cur]
                  /\ channels[cur] \in WholeArrays]_vars

\* C13 witness: the worker is at its read of the channels while the caller, having
\* stored Filled(255) before, is in the middle of reset_channels(): it holds the
\* lock exclusive and the channels are half zeroed
C13_Witness ==
    /\ wpc[1] = "read"
    /\ cpc = "storing"
    /\ lock.writers = {"caller"}
    /\ channels[1] = Put(Filled(255), 0, 0)
    /\ channels[1] \notin WholeArrays

\* C14: in StoreSpec, set_channel(c, v) with c in 1 .. 512 returns Ok; after it
\* get_channel(c) is v and get_channel(j) of every other j in 1 .. 512 is what it
\* was; the mode flag, the packet interval and the trigger queue are unchanged.
C14_SetThenGet ==
    [][\A c \in StoreChannelArgs \cap (1 .. DMX_CHANNELS), v \in StoreValueArgs :
          set_channel(c, v)
            => /\ ret' = <<"set_channel", "Ok">>
               /\ get_channel(c)' = v
               /\ \A j \in (1 .. DMX_CHANNELS) \ {c} : get_channel(j)' = get_channel(j)
               /\ UNCHANGED <<is_sync, min_time_break_to_break, triggers>>]_vars

\* C14 witness: set_channel has returned Ok with channel 512 at 128, channel 1 at
\* 255 and channel 2 at 0 in an array stored as all 255 before, in sync mode with a
\* trigger queued
C14_Witness ==
    /\ ret = <<"set_channel", "Ok">>
    /\ get_channel(DMX_CHANNELS) = 128
    /\ get_channel(1) = 255
    /\ get_channel(2) = 0
    /\ get_channel(DMX_CHANNELS - 1) = 255
    /\ IsSync
    /\ triggers[cur] = 1

\* C15: in StoreSpec, get_channel(0) is the 'too low' error and get_channel of a
\* number above 512 the 'too high' error; set_channel(c, v) with c = 0 returns
\* 'too low', with c above 512 'too high', and either leaves the channels, the
\* trigger queue and the completion channel as they are.
C15_ChannelRange ==
    /\ [](/\ get_channel(0) = "TooLow"
          /\ \A c \in StoreChannelArgs : c > DMX_CHANNELS => get_channel(c) = "TooHigh")
    /\ [][\A c \in StoreChannelArgs \ (1 .. DMX_CHANNELS), v \in StoreValueArgs :
             set_channel(c, v)
               => /\ ret' = <<"set_channel", IF c = 0 THEN "TooLow" ELSE "TooHigh">>
                  /\ UNCHANGED <<channels, triggers, done_q>>]_vars

\* C15 witness: set_channel has returned 'too high' on a store whose channel 512 is
\* not at its initial value
C15_Witness ==
    /\ ret = <<"set_channel", "TooHigh">>
    /\ get_channel(DMX_CHANNELS) = 255
    /\ get_channel(1) = 128

\* C16: in every state exactly one of is_sync() and is_async() is true; every
\* set_sync() (that of open_sync too) ends with is_sync() true and is_async()
\* false, and every set_async() with is_sync() false and is_async() true, whatever
\* the mode was before.
C16_ModeToggle ==
    /\ [](IsSync # IsAsync)
    /\ [][/\ (set_sync \/ open_sync) => (IsSync' /\ ~IsAsync')
          /\ set_async => (~IsSync' /\ IsAsync')]_vars

\* C16 witness: set_async() has returned on an instance that had been set to sync
C16_Witness ==
    /\ ret = <<"set_async", "Ok">>
    /\ ever_sync[cur]
    /\ IsAsync
    /\ ~IsSync

\* the worker of instance g can no longer be expected to send frames for self:
\* the mode is async, the facade is dropped or the worker is on its way out
C17_Escape(g) == ~is_sync[g] \/ ~facade_alive[g] \/ LoopLeft(g)

\* C17: a worker that reads the flag as sync goes to wait for a trigger; it leaves
\* the wait for its read of the channels only by taking exactly one trigger from
\* the queue, or for its exit; a frame starts only after that read; triggers
\* leave the queue only one at a time by that recv (or all at once when the
\* worker, its loop left, drops the queue).  And when the worker is scheduled, while the
\* mode stays sync, the facade lives and the transport works, a queued trigger
\* leads to the worker waiting in recv, and a worker in recv with a trigger queued
\* leads to the start of a frame.
C17_SyncOneToOne ==
    /\ [][\A g \in Gens :
            /\ (wpc[g] = "loop" /\ is_sync[g]) => wpc'[g] \in {"loop", "recv"}
            /\ wpc[g] = "recv" => wpc'[g] \in {"recv", "read", "exit"}
            /\ (wpc[g] = "recv" /\ wpc'[g] = "read") => triggers'[g] = triggers[g] - 1
            /\ (wpc[g] # "break" /\ wpc'[g] = "break") => wpc[g] = "read"
            /\ triggers'[g] < triggers[g]
                 => \/ wpc[g] = "recv" /\ wpc'[g] = "read"
                    \/ wpc[g] = "exit" /\ wpc'[g] = "closing"]_vars
    /\ \A g \in 1 .. MaxGen :
         /\ (g \in Gens /\ triggers[g] > 0 /\ is_sync[g])
              ~> (g \in Gens /\ ((wpc[g] = "recv" /\ triggers[g] > 0) \/ C17_Escape(g)))
         /\ (g \in Gens /\ wpc[g] = "recv" /\ triggers[g] > 0)
              ~> (g \in Gens /\ wpc[g] = "break")

\* C17 witness: in sync mode the worker starts a frame after update_async() was
\* called twice: one trigger is taken, the other still queued
C17_Witness ==
    /\ is_sync[cur]
    /\ ret = <<"update_async", "Ok">>
    /\ wpc[cur] = "break"
    /\ triggers[cur] = 1
    /\ sync_quiet = FALSE
    /\ cur = 1

\* C18: the worker reads the mode once in each iteration, at the head of the loop,
\* before recv() and before it reads the channels.  set_sync, set_async and
\* open_sync leave the worker, its snapshot and the queues as they are; from the
\* head of the loop the worker goes to recv() in sync mode and to the read of the
\* channels in async mode; from there on its steps are the same in either mode and
\* the frame carries the snapshot it read.  So since set_sync last returned at most
\* one frame is started by an iteration that took no trigger.
C18_ModeReadOncePerCycle ==
    /\ [](\A g \in Gens : untriggered[g] <= 1)
    /\ [][/\ (set_sync \/ set_async \/ open_sync) => UNCHANGED <<worker, took, triggers, done_q>>
          /\ \A g \in Gens :
                wpc'[g] # wpc[g] =>
                  CASE wpc[g] = "loop" -> wpc'[g] = IF is_sync[g] THEN "recv" ELSE "read"
                    [] wpc[g] = "recv" -> wpc'[g] \in {"read", "exit"}
                    [] wpc[g] = "read" -> wpc'[g] = "break" /\ w_channels'[g] = channels[g]
                    [] wpc[g] = "break" ->
                         \/ wpc'[g] = "data" /\ w_channels'[g] = w_channels[g]
                         \/ wpc'[g] = "exit"
                    [] wpc[g] = "data" ->
                         \/ wpc'[g] = "notify" /\ w_channels'[g] = w_channels[g]
                         \/ wpc'[g] = "exit"
                    [] wpc[g] = "notify" -> wpc'[g] \in {"loop", "exit"}
                    [] wpc[g] = "exit" -> wpc'[g] = "closing"
                    [] OTHER -> wpc'[g] = "dead"]_vars

\* C18 witness: after set_sync returned the worker finished the frame that was in
\* flight, started with no trigger, and now waits in recv() for the first trigger
C18_Witness ==
    /\ is_sync[cur]
    /\ ret = <<"set_sync", "Ok">>
    /\ untriggered[cur] = 1
    /\ wpc[cur] = "recv"
    /\ triggers[cur] = 0

\* the worker of instance g is past the call of send_dmx_packet of its iteration,
\* or past its loop
PastFrameStart(g) == wpc[g] \in {"data", "notify"} \/ LoopLeft(g)

\* C19: once the facade of an instance is dropped (by the caller's drop or by the
\* assignment in reopen) it stays dropped, and its worker, once it is past the start
\* of a frame, goes on to the end of its thread without coming back to the loop, so
\* that it starts at most one frame after the drop, with triggers queued or not;
\* and when the worker's steps are taken (its transport calls return) the worker of
\* a dropped facade always comes to the end of its thread.
C19_OrphanExits ==
    /\ [][\A g \in Gens :
            ~facade_alive[g] =>
              /\ ~facade_alive'[g]
              /\ PastFrameStart(g) => PastFrameStart(g)'
              /\ (wpc[g] = "recv" /\ triggers[g] = 0) => wpc'[g] \in {"recv", "exit"}
              /\ wpc[g] = "notify" => wpc'[g] \in {"notify", "exit"}]_vars
    /\ \A g \in 1 .. MaxGen :
         (g \in Gens /\ ~facade_alive[g]) ~> (g \in Gens /\ wpc[g] = "dead")

\* C19 witness: reopen has replaced the facade of instance 1, whose worker waited in
\* sync mode with triggers queued; the old worker took one of them and is sending
\* its last frame while another trigger is still queued
C19_Witness ==
    /\ cur = 2
    /\ ret = <<"reopen", "Ok">>
    /\ ~facade_alive[1]
    /\ is_sync[1]
    /\ took[1]
    /\ wpc[1] = "data"
    /\ triggers[1] > 0

\* the instance made by the DMXSerial::open inside a reopen that has yet to return
NewInstance == Len(wpc)

\* C20: a frame the new worker transmits before reopen has returned carries the
\* channel values reopen saved from the old instance, not the zeroed buffer the
\* new instance was made with (code_bug: stated as claimed).  The frame is the
\* worker's snapshot when send_data has written it.
C20_ReopenKeepsFrames ==
    [][(/\ cpc \in {"reopen_assign", "reopen_restore"}
        /\ wpc[NewInstance] = "data"
        /\ wpc'[NewInstance] = "notify")
          => w_channels[NewInstance] = saved]_vars

\* C21, as claimed: a trigger queued for the worker of an instance that reopen has
\* replaced leaves the queue only when the worker, its loop left, drops the queue,
\* never into a recv() of that worker.
C21_QueuedTriggersDiscarded ==
    [][\A g \in Gens :
         (~facade_alive[g] /\ g # cur /\ triggers'[g] < triggers[g])
           => (wpc[g] = "exit" /\ wpc'[g] = "closing")]_vars

\* C21: the assignment in reopen makes self the new instance, of the old one's name,
\* and drops the old facade with its triggers still queued; when reopen returns
\* Ok, self is in async mode with the default packet time and an empty trigger
\* queue, whatever the old instance had, and its channel values are those reopen
\* took from the old instance.  A trigger still queued for a dropped facade's
\* worker is never handed to the new worker: it leaves the queue by one recv() of
\* the old worker, which after that never waits in recv() again, or when that
\* worker, its loop left, drops the queue.
C21_ReopenResets ==
    [][/\ (cpc = "reopen_assign" /\ cpc' = "reopen_restore")
            => /\ cur' = NewInstance /\ cur' # cur
               /\ ~facade_alive'[cur]
               /\ name'[cur'] = name[cur]
               /\ saved = channels[cur]
               /\ triggers'[cur] = triggers[cur]
       /\ (cpc = "reopen_restore" /\ cpc' = "idle")
            => /\ ret' = <<"reopen", "Ok">>
               /\ cur' = cur
               /\ ~is_sync'[cur]
               /\ min_time_break_to_break'[cur] = DEFAULT_PACKET_TIME
               /\ triggers'[cur] = 0
               /\ channels'[cur] = saved
       /\ \A g \in Gens :
            ~facade_alive[g]
              => /\ triggers'[g] # triggers[g]
                      => /\ \/ /\ wpc[g] = "recv" /\ wpc'[g] = "read"
                               /\ triggers'[g] = triggers[g] - 1
                            \/ /\ wpc[g] = "exit" /\ wpc'[g] = "closing"
                               /\ triggers'[g] = 0
                         /\ \A h \in Gens \ {g} : triggers'[h] = triggers[h]
                 /\ took[g] => wpc'[g] # "recv"]_vars

\* C21 witness: reopen has returned Ok on an instance that was in sync mode with a
\* packet time of its own, channel values set and triggers queued; the new
\* instance is async with the default packet time, the values and no trigger
C21_Witness ==
    /\ ret = <<"reopen", "Ok">>
    /\ cur = 2
    /\ is_sync[1]
    /\ min_time_break_to_break[1] # DEFAULT_PACKET_TIME
    /\ triggers[1] > 0
    /\ ~is_sync[2]
    /\ min_time_break_to_break[2] = DEFAULT_PACKET_TIME
    /\ triggers[2] = 0
    /\ channels[2] # Filled(0)

\* the worker of instance g has taken a trigger whose frame it has yet to start
FrameOwed(g) == took[g] /\ wpc[g] \in {"read", "break"}

\* C22: an iteration that goes from the head of the loop straight to the read of
\* the channels (async) leaves the trigger queue as it is.  The queue grows only
\* by one, by an update or update_async of the caller, in either mode; it shrinks
\* only by one, by the recv() of an iteration in sync mode, which is then the one
\* iteration that has taken a trigger, or to nothing when the worker, its loop
\* left, drops it; set_sync leaves it as it is.  So the frames started by iterations in
\* sync mode are at most the triggers sent since open.  And when the worker is
\* scheduled, a trigger queued while the mode is sync is taken, and the frame of a
\* taken trigger is started, with no step of the caller needed.
C22_StaleTriggersReleaseFrames ==
    /\ [](\A g \in Gens : took[g] => wpc[g] \in {"read", "break", "data", "notify"})
    /\ [][/\ set_sync => UNCHANGED triggers
          /\ \A g \in Gens :
               /\ (wpc[g] = "loop" /\ wpc'[g] = "read")
                    => ~is_sync[g] /\ triggers'[g] = triggers[g] /\ ~took'[g]
               /\ triggers'[g] > triggers[g]
                    => /\ triggers'[g] = triggers[g] + 1
                       /\ g = cur
                       /\ \/ ret' \in {<<"update_async", "Ok">>, <<"update", "Ok">>}
                          \/ InUpdate'
               /\ triggers'[g] < triggers[g]
                    => \/ /\ wpc[g] = "recv" /\ wpc'[g] = "read"
                          /\ triggers'[g] = triggers[g] - 1
                          /\ ~took[g] /\ took'[g]
                       \/ wpc[g] = "exit" /\ wpc'[g] = "closing" /\ triggers'[g] = 0
               /\ (took'[g] /\ ~took[g])
                    => wpc[g] = "recv" /\ triggers'[g] = triggers[g] - 1
               /\ (FrameOwed(g) /\ ~FrameOwed(g)')
                    => wpc[g] = "break" /\ wpc'[g] \in {"data", "exit"}]_vars
    /\ \A g \in 1 .. MaxGen :
         /\ (g \in Gens /\ is_sync[g] /\ triggers[g] > 0 /\ ~took[g])
              ~> (g \in Gens /\ (took[g] \/ C17_Escape(g)))
         /\ (g \in Gens /\ FrameOwed(g)) ~> (g \in Gens /\ ~FrameOwed(g))

\* C22 witness: two triggers were sent while the worker ran an async iteration;
\* set_sync returned, that iteration started its frame, and with no further call
\* the next iteration took one of the triggers and started a frame, the other
\* trigger still queued
C22_Witness ==
    /\ cur = 1
    /\ ret = <<"set_sync", "Ok">>
    /\ is_sync[1]
    /\ untriggered[1] = 1
    /\ took[1]
    /\ wpc[1] = "data"
    /\ triggers[1] = 1
====
